---- MODULE Spec2Model ----
(***************************************************************************)
(* Model of servicenow_mcp/tools/problem_tools.py: the three read-only     *)
(* Problem tools list_problems, get_problem_by_number and search_problems. *)
(*                                                                         *)
(* Python values are tagged records: None, str (a sequence of tokens, one  *)
(* token per character or per literal fragment of an f-string), int and    *)
(* dict (a function from keys to values).  One invocation runs at a time   *)
(* (the tools are synchronous): the Call step runs the handler up to the   *)
(* blocking requests.get, the Return step runs it from the response to     *)
(* the return statement or to the exception that leaves it.                *)
(***************************************************************************)
EXTENDS Integers, Sequences, FiniteSets, TLC

(* ------------------------------ bounds --------------------------------- *)
MaxRows == 2          \* longest upstream `result` array
MaxKeywords == 2      \* longest keyword list passed to search_problems
MaxKwLen == 1         \* longest keyword, in characters

(* --------------------------- Python values ----------------------------- *)
PyNone == [t |-> "none"]
PyStr(s) == [t |-> "str", v |-> s]
PyInt(n) == [t |-> "int", v |-> n]
PyDict(d) == [t |-> "dict", d |-> d]

\* isinstance(x, dict)
IsDict(x) == x.t = "dict"

\* bool(x) for the optional string parameters: None and "" are falsy
Truthy(x) == x.t = "str" /\ x.v # <<>>

\* dict.get(key): the value, or None when the key is absent
Get(rec, key) == IF key \in DOMAIN rec.d THEN rec.d[key] ELSE PyNone

\* str(n) of a non-negative int, digit by digit
Digit(n) == <<"0", "1", "2", "3", "4", "5", "6", "7", "8", "9">>[n + 1]

RECURSIVE IntToStr(_)
IntToStr(n) == IF n < 10 THEN <<Digit(n)>> ELSE IntToStr(n \div 10) \o <<Digit(n % 10)>>

\* sep.join(parts) on token sequences
RECURSIVE Join(_, _)
Join(sep, parts) ==
    IF parts = <<>> THEN <<>>
    ELSE IF Len(parts) = 1 THEN parts[1]
    ELSE parts[1] \o sep \o Join(sep, Tail(parts))

(* ------------------------- the upstream table API ---------------------- *)
\* keys of a raw problem row, as read by the normalisation loops
RawKeys == {"sys_id", "number", "short_description", "description", "state",
            "priority", "assigned_to", "category", "subcategory",
            "sys_created_on", "sys_updated_on"}

FullRow(num, assigned, st) ==
    PyDict([k \in RawKeys |->
        IF k = "assigned_to" THEN assigned
        ELSE IF k = "state" THEN st
        ELSE IF k = "number" THEN PyStr(<<num>>)
        ELSE PyStr(<<k, "-of-", num>>)])

\* rows the upstream can answer with: a reference field as a nested
\* display-value object or as a bare string, a choice field as a nested
\* object, and rows with keys missing
RawRows ==
    { FullRow("PRB0010001", PyDict([display_value |-> PyStr(<<"Jane Admin">>)]), PyStr(<<"1">>)),
      FullRow("PRB0010002", PyStr(<<"Joe User">>), PyDict([display_value |-> PyStr(<<"Open">>)])),
      PyDict([k \in {"sys_id", "number"} |-> PyStr(<<k, "-of-", "PRB0010003">>)]),
      PyDict(<<>>) }

RECURSIVE SeqsUpTo(_, _)
SeqsUpTo(S, n) ==
    IF n = 0 THEN {<<>>}
    ELSE LET shorter == SeqsUpTo(S, n - 1)
         IN  shorter \cup {Append(s, x) : s \in {q \in shorter : Len(q) = n - 1}, x \in S}

\* response.json() when it parses: a JSON array (no .get), an object without
\* `result`, or an object whose `result` is an array of rows
JsonBodies ==
    {[t |-> "list"]} \cup {PyDict(<<>>)}
        \cup {PyDict([result |-> rows]) : rows \in SeqsUpTo(RawRows, MaxRows)}

\* exceptions raised by requests.get / raise_for_status / response.json
TransportFailures == {"ConnectionError", "Timeout", "HTTPError", "JSONDecodeError"}

Responses ==
    {[kind |-> f] : f \in TransportFailures} \cup {[kind |-> "ok", body |-> b] : b \in JsonBodies}

\* `except requests.RequestException`
RequestException == {"ConnectionError", "Timeout", "HTTPError", "JSONDecodeError"}

\* auth_manager.get_headers(): headers, or one of the auth errors
GetHeadersOutcomes == {"headers", "AuthConfigurationError", "AuthUpstreamError"}

\* str(e)
StrOfException(e) == <<e>>

(* ------------------------- outcomes of a call -------------------------- *)
NoOutcome == [t |-> "none"]
Return(value) == [t |-> "return", value |-> value]
Raise(exc) == [t |-> "raise", exc |-> exc]
NoResponse == [kind |-> "none"]

(* ------------------------------ inputs --------------------------------- *)
Limits == {-1, 0, 10}
Offsets == {-1, 0}
OptStates == {PyNone, PyStr(<<"1">>)}
OptAssignees == {PyNone, PyStr(<<>>), PyStr(<<"u1">>)}
OptCategories == {PyNone, PyStr(<<"Software">>)}
OptQueries == {PyNone, PyStr(<<"email">>)}
ProblemNumbers == {<<"PRB0010001">>, <<"PRB0099999">>}
KwChars == {"a", " "}
Keywords == SeqsUpTo(KwChars, MaxKwLen)
KeywordLists == SeqsUpTo(Keywords, MaxKeywords)

(* --------------------------- params models ----------------------------- *)
\* the Field declarations carry a default and a description only: every
\* int is accepted for limit and offset, every str for the rest
ListProblemsParams(limit, offset, state, assigned_to, category, query) ==
    [limit |-> limit, offset |-> offset, state |-> state,
     assigned_to |-> assigned_to, category |-> category, query |-> query]

GetProblemByNumberParams(problem_number) == [problem_number |-> problem_number]

SearchProblemsParams(keywords, limit, offset) ==
    [keywords |-> keywords, limit |-> limit, offset |-> offset]

(* ----------------------------- list_problems --------------------------- *)
\* mutant: the category test is placed before the assigned_to test
ListFilters_Reordered(p) ==
    (IF Truthy(p.state) THEN << <<"state=">> \o p.state.v >> ELSE <<>>)
    \o (IF Truthy(p.category) THEN << <<"category=">> \o p.category.v >> ELSE <<>>)
    \o (IF Truthy(p.assigned_to) THEN << <<"assigned_to=">> \o p.assigned_to.v >> ELSE <<>>)
    \o (IF Truthy(p.query)
        THEN << <<"short_descriptionLIKE">> \o p.query.v \o <<"^OR">>
                \o <<"descriptionLIKE">> \o p.query.v >>
        ELSE <<>>)

\* the filters list, one clause per parameter that is set
ListFilters(p) ==
    (IF Truthy(p.state) THEN << <<"state=">> \o p.state.v >> ELSE <<>>)
    \o (IF Truthy(p.assigned_to) THEN << <<"assigned_to=">> \o p.assigned_to.v >> ELSE <<>>)
    \o (IF Truthy(p.category) THEN << <<"category=">> \o p.category.v >> ELSE <<>>)
    \o (IF Truthy(p.query)
        THEN << <<"short_descriptionLIKE">> \o p.query.v \o <<"^OR">>
                \o <<"descriptionLIKE">> \o p.query.v >>
        ELSE <<>>)

ListQueryParams(p) ==
    LET base == [k \in {"sysparm_limit", "sysparm_offset", "sysparm_display_value",
                        "sysparm_exclude_reference_link"} |->
                    IF k = "sysparm_limit" THEN PyInt(p.limit)
                    ELSE IF k = "sysparm_offset" THEN PyInt(p.offset)
                    ELSE PyStr(<<"true">>)]
        filters == ListFilters(p)
    IN  IF filters # <<>>
        THEN [k \in DOMAIN base \cup {"sysparm_query"} |->
                 IF k = "sysparm_query" THEN PyStr(Join(<<"^">>, filters)) ELSE base[k]]
        ELSE base

\* one row of the summary view; assigned_to alone is collapsed
ListProblemRecord(rec) ==
    LET assigned_to == Get(rec, "assigned_to")
    IN  [sys_id |-> Get(rec, "sys_id"),
         number |-> Get(rec, "number"),
         short_description |-> Get(rec, "short_description"),
         description |-> Get(rec, "description"),
         state |-> Get(rec, "state"),
         priority |-> Get(rec, "priority"),
         assigned_to |-> IF IsDict(assigned_to) THEN Get(assigned_to, "display_value")
                         ELSE assigned_to,
         category |-> Get(rec, "category"),
         subcategory |-> Get(rec, "subcategory"),
         created_on |-> Get(rec, "sys_created_on"),
         updated_on |-> Get(rec, "sys_updated_on")]

\* the for loop over data.get("result", [])
ListProblemsLoop(rows) == [i \in 1..Len(rows) |-> ListProblemRecord(rows[i])]

\* data.get("result", [])
ResultOf(data) == IF "result" \in DOMAIN data.d THEN data.d.result ELSE <<>>

\* the try body from the response on
ListProblemsTry(resp) ==
    IF resp.kind # "ok" THEN Raise(resp.kind)
    ELSE IF ~IsDict(resp.body) THEN Raise("AttributeError")
    ELSE LET problems == ListProblemsLoop(ResultOf(resp.body))
         IN  Return([success |-> TRUE,
                     message |-> <<"Found ">> \o IntToStr(Len(problems)) \o <<" problems">>,
                     problems |-> problems])

\* mutant: the except clause drops str(e) from the message
ListProblemsExcept_NoCause(e) ==
    [success |-> FALSE, message |-> <<"Failed to list problems: ">>, problems |-> <<>>]

ListProblemsExcept(e) ==
    [success |-> FALSE,
     message |-> <<"Failed to list problems: ">> \o StrOfException(e),
     problems |-> <<>>]

\* the try/except: a RequestException becomes the failure dict, anything
\* else leaves the function
ListProblemsOutcome(o) ==
    IF o.t = "raise" /\ o.exc \in RequestException
    THEN Return(ListProblemsExcept(o.exc)) ELSE o

(* ------------------------- get_problem_by_number ----------------------- *)
GetQueryParams(p) ==
    [k \in {"sysparm_query", "sysparm_limit", "sysparm_display_value",
            "sysparm_exclude_reference_link"} |->
        IF k = "sysparm_query" THEN PyStr(<<"number=">> \o p.problem_number)
        ELSE IF k = "sysparm_limit" THEN PyInt(1)
        ELSE PyStr(<<"true">>)]

\* mutant: rec = result[-1] instead of result[0]
GetProblemTry_LastRow(p, resp) ==
    IF resp.kind # "ok" THEN Raise(resp.kind)
    ELSE IF ~IsDict(resp.body) THEN Raise("AttributeError")
    ELSE LET result == ResultOf(resp.body)
         IN  IF result = <<>>
             THEN Return([success |-> FALSE,
                          message |-> <<"Problem not found: ">> \o p.problem_number])
             ELSE Return([success |-> TRUE,
                          message |-> <<"Problem ">> \o p.problem_number \o <<" found">>,
                          problem |-> ListProblemRecord(result[Len(result)])])

GetProblemTry(p, resp) ==
    IF resp.kind # "ok" THEN Raise(resp.kind)
    ELSE IF ~IsDict(resp.body) THEN Raise("AttributeError")
    ELSE LET result == ResultOf(resp.body)
         IN  IF result = <<>>
             THEN Return([success |-> FALSE,
                          message |-> <<"Problem not found: ">> \o p.problem_number])
             ELSE Return([success |-> TRUE,
                          message |-> <<"Problem ">> \o p.problem_number \o <<" found">>,
                          problem |-> ListProblemRecord(result[1])])

GetProblemExcept(e) ==
    [success |-> FALSE,
     message |-> <<"Failed to fetch problem: ">> \o StrOfException(e)]

GetProblemOutcome(o) ==
    IF o.t = "raise" /\ o.exc \in RequestException
    THEN Return(GetProblemExcept(o.exc)) ELSE o

(* ----------------------------- search_problems ------------------------- *)
\* the or_parts list: two clauses per keyword, `if not kw: continue`
RECURSIVE OrParts(_)
OrParts(keywords) ==
    IF keywords = <<>> THEN <<>>
    ELSE LET kw == Head(keywords)
         IN  (IF kw = <<>> THEN <<>>
              ELSE << <<"short_descriptionLIKE">> \o kw, <<"descriptionLIKE">> \o kw >>)
             \o OrParts(Tail(keywords))

SearchFields ==
    <<"sys_id,number,short_description,state,priority,sys_created_on,sys_updated_on">>

\* mutant: sysparm_offset left out of query_params
SearchQueryParams_NoOffset(p) ==
    [k \in {"sysparm_query", "sysparm_limit", "sysparm_display_value",
            "sysparm_exclude_reference_link", "sysparm_fields"} |->
        IF k = "sysparm_query" THEN PyStr(Join(<<"^OR">>, OrParts(p.keywords)))
        ELSE IF k = "sysparm_limit" THEN PyInt(p.limit)
        ELSE IF k = "sysparm_fields" THEN PyStr(SearchFields)
        ELSE PyStr(<<"true">>)]

SearchQueryParams(p) ==
    [k \in {"sysparm_query", "sysparm_limit", "sysparm_offset", "sysparm_display_value",
            "sysparm_exclude_reference_link", "sysparm_fields"} |->
        IF k = "sysparm_query" THEN PyStr(Join(<<"^OR">>, OrParts(p.keywords)))
        ELSE IF k = "sysparm_limit" THEN PyInt(p.limit)
        ELSE IF k = "sysparm_offset" THEN PyInt(p.offset)
        ELSE IF k = "sysparm_fields" THEN PyStr(SearchFields)
        ELSE PyStr(<<"true">>)]

\* one row of the compact view
SearchProblemRecord(rec) ==
    [sys_id |-> Get(rec, "sys_id"),
     number |-> Get(rec, "number"),
     short_description |-> Get(rec, "short_description"),
     state |-> Get(rec, "state"),
     priority |-> Get(rec, "priority"),
     created_on |-> Get(rec, "sys_created_on"),
     updated_on |-> Get(rec, "sys_updated_on")]

\* mutant: problems.insert(0, ...) instead of problems.append(...)
SearchProblemsLoop_Reversed(rows) ==
    [i \in 1..Len(rows) |-> SearchProblemRecord(rows[Len(rows) + 1 - i])]

SearchProblemsLoop(rows) == [i \in 1..Len(rows) |-> SearchProblemRecord(rows[i])]

SearchProblemsTry(resp) ==
    IF resp.kind # "ok" THEN Raise(resp.kind)
    ELSE IF ~IsDict(resp.body) THEN Raise("AttributeError")
    ELSE LET problems == SearchProblemsLoop(ResultOf(resp.body))
         IN  Return([success |-> TRUE,
                     message |-> <<"Found ">> \o IntToStr(Len(problems))
                                 \o <<" problems matching keywords">>,
                     problems |-> problems])

SearchProblemsExcept(e) ==
    [success |-> FALSE,
     message |-> <<"Failed to search problems: ">> \o StrOfException(e),
     problems |-> <<>>]

SearchProblemsOutcome(o) ==
    IF o.t = "raise" /\ o.exc \in RequestException
    THEN Return(SearchProblemsExcept(o.exc)) ELSE o

\* the two early returns taken before any request is built
NoKeywordsProvided == [success |-> TRUE, message |-> <<"No keywords provided">>, problems |-> <<>>]
NoValidKeywords == [success |-> TRUE, message |-> <<"No valid keywords">>, problems |-> <<>>]

(* ------------------------------ the machine ---------------------------- *)
VARIABLES
    pc,         \* "idle", "waiting" (GET in flight) or "done"
    op,         \* the tool being run
    params,     \* its params object
    requests,   \* the GETs issued by this invocation, each its query_params
    response,   \* what the upstream answered
    ret         \* how the invocation ended: a returned dict or a raised exception

vars == <<pc, op, params, requests, response, ret>>

Init ==
    /\ pc = "idle"
    /\ op = "none"
    /\ params = <<>>
    /\ requests = <<>>
    /\ response = NoResponse
    /\ ret = NoOutcome

\* requests.get(api_url, params=query_params, headers=auth_manager.get_headers(), ...):
\* the headers are computed first; when that raises, no GET goes out
SendGet(query_params, h, onError) ==
    IF h = "headers"
    THEN /\ requests' = Append(requests, query_params)
         /\ pc' = "waiting"
         /\ ret' = NoOutcome
    ELSE /\ requests' = requests
         /\ pc' = "done"
         /\ ret' = onError

ListProblemsCall ==
    /\ pc = "idle"
    /\ \E limit \in Limits, offset \in Offsets, state \in OptStates,
          assigned_to \in OptAssignees, category \in OptCategories, query \in OptQueries,
          h \in GetHeadersOutcomes :
        LET p == ListProblemsParams(limit, offset, state, assigned_to, category, query)
        IN  /\ op' = "list_problems"
            /\ params' = p
            /\ SendGet(ListQueryParams(p), h, ListProblemsOutcome(Raise(h)))
    /\ response' = NoResponse

\* mutant: a failed GET is sent once more before giving up
ListProblemsReturn_Retry ==
    /\ pc = "waiting"
    /\ op = "list_problems"
    /\ \E resp \in Responses :
        /\ response' = resp
        /\ IF resp.kind \in TransportFailures /\ Len(requests) < 2
           THEN /\ requests' = Append(requests, requests[1])
                /\ pc' = "waiting"
                /\ ret' = ret
           ELSE /\ requests' = requests
                /\ pc' = "done"
                /\ ret' = ListProblemsOutcome(ListProblemsTry(resp))
    /\ UNCHANGED <<op, params>>

ListProblemsReturn ==
    /\ pc = "waiting"
    /\ op = "list_problems"
    /\ \E resp \in Responses :
        /\ response' = resp
        /\ ret' = ListProblemsOutcome(ListProblemsTry(resp))
    /\ pc' = "done"
    /\ UNCHANGED <<op, params, requests>>

GetProblemByNumberCall ==
    /\ pc = "idle"
    /\ \E n \in ProblemNumbers, h \in GetHeadersOutcomes :
        LET p == GetProblemByNumberParams(n)
        IN  /\ op' = "get_problem_by_number"
            /\ params' = p
            /\ SendGet(GetQueryParams(p), h, GetProblemOutcome(Raise(h)))
    /\ response' = NoResponse

GetProblemByNumberReturn ==
    /\ pc = "waiting"
    /\ op = "get_problem_by_number"
    /\ \E resp \in Responses :
        /\ response' = resp
        /\ ret' = GetProblemOutcome(GetProblemTry(params, resp))
    /\ pc' = "done"
    /\ UNCHANGED <<op, params, requests>>

SearchProblemsCall ==
    /\ pc = "idle"
    /\ \E keywords \in KeywordLists, limit \in Limits, offset \in Offsets,
          h \in GetHeadersOutcomes :
        LET p == SearchProblemsParams(keywords, limit, offset)
        IN  /\ op' = "search_problems"
            /\ params' = p
            /\ IF p.keywords = <<>>
               THEN /\ ret' = Return(NoKeywordsProvided)
                    /\ pc' = "done"
                    /\ requests' = requests
               ELSE IF OrParts(p.keywords) = <<>>
               THEN /\ ret' = Return(NoValidKeywords)
                    /\ pc' = "done"
                    /\ requests' = requests
               ELSE SendGet(SearchQueryParams(p), h, SearchProblemsOutcome(Raise(h)))
    /\ response' = NoResponse

SearchProblemsReturn ==
    /\ pc = "waiting"
    /\ op = "search_problems"
    /\ \E resp \in Responses :
        /\ response' = resp
        /\ ret' = SearchProblemsOutcome(SearchProblemsTry(resp))
    /\ pc' = "done"
    /\ UNCHANGED <<op, params, requests>>

\* the caller has its answer; the next invocation starts afresh
NextInvocation ==
    /\ pc = "done"
    /\ pc' = "idle"
    /\ op' = "none"
    /\ params' = <<>>
    /\ requests' = <<>>
    /\ response' = NoResponse
    /\ ret' = NoOutcome

Next ==
    \/ ListProblemsCall
    \/ ListProblemsReturn
    \/ GetProblemByNumberCall
    \/ GetProblemByNumberReturn
    \/ SearchProblemsCall
    \/ SearchProblemsReturn
    \/ NextInvocation

Spec == Init /\ [][Next]_vars

TypeOK ==
    /\ pc \in {"idle", "waiting", "done"}
    /\ op \in {"none", "list_problems", "get_problem_by_number", "search_problems"}
    /\ Len(requests) \in 0..2

(* ============================== properties ============================= *)
Done == pc = "done"
Returned == ret.t = "return"
Envelope == ret.value

\* an upstream answer that is a 2xx with a JSON object body
UpstreamOk == response.kind = "ok" /\ IsDict(response.body)
UpstreamRows == IF "result" \in DOMAIN response.body.d THEN response.body.d.result ELSE <<>>

\* the handler failed after starting its outbound work
TransportFailed == response.kind \in TransportFailures
BodyNotObject == response.kind = "ok" /\ ~IsDict(response.body)
AuthFailed ==
    /\ Done
    /\ response = NoResponse
    /\ op = "search_problems" => \E i \in 1..Len(params.keywords) : params.keywords[i] # <<>>

FailurePrefix ==
    CASE op = "list_problems" -> "Failed to list problems: "
      [] op = "get_problem_by_number" -> "Failed to fetch problem: "
      [] op = "search_problems" -> "Failed to search problems: "
      [] OTHER -> "?"

\* text.split(sep) on token sequences
RECURSIVE SplitOn(_, _)
SplitOn(s, sep) ==
    IF \A i \in 1..Len(s) : s[i] # sep THEN <<s>>
    ELSE LET i == CHOOSE j \in 1..Len(s) : s[j] = sep /\ \A k \in 1..(j - 1) : s[k] # sep
         IN  <<SubSeq(s, 1, i - 1)>> \o SplitOn(SubSeq(s, i + 1, Len(s)), sep)

\* a keyword that is empty or whitespace only
IsBlank(kw) == \A i \in 1..Len(kw) : kw[i] = " "

RECURSIVE NonBlank(_)
NonBlank(kws) ==
    IF kws = <<>> THEN <<>>
    ELSE (IF IsBlank(Head(kws)) THEN <<>> ELSE <<Head(kws)>>) \o NonBlank(Tail(kws))

\* int(text) of a digit sequence
DigitValue(d) == CHOOSE n \in 0..9 : Digit(n) = d

RECURSIVE StrToInt(_)
StrToInt(ds) ==
    IF Len(ds) = 1 THEN DigitValue(ds[1])
    ELSE 10 * StrToInt(SubSeq(ds, 1, Len(ds) - 1)) + DigitValue(ds[Len(ds)])

IsDigit(tok) == \E n \in 0..9 : Digit(n) = tok

IsScalar(x) == x.t \in {"none", "str", "int"}

ListFieldSet == {"sys_id", "number", "short_description", "description", "state", "priority",
                 "assigned_to", "category", "subcategory", "created_on", "updated_on"}
SearchFieldSet == {"sys_id", "number", "short_description", "state", "priority",
                   "created_on", "updated_on"}

\* the records an envelope carries
PayloadRecords ==
    IF ~(Done /\ Returned) THEN {}
    ELSE (IF "problems" \in DOMAIN Envelope
          THEN {Envelope.problems[i] : i \in 1..Len(Envelope.problems)} ELSE {})
         \cup (IF "problem" \in DOMAIN Envelope THEN {Envelope.problem} ELSE {})

(* C1: a get_problem_by_number call whose upstream answer is a JSON object  *)
(* returns {success: false, message: "Problem not found: <n>"} without a    *)
(* `problem` key when `result` is empty or missing, and success=true with   *)
(* a `problem` built from the first row otherwise.                          *)
C1_GetByNumberEnvelope ==
    (Done /\ op = "get_problem_by_number" /\ UpstreamOk) =>
        /\ Returned
        /\ IF UpstreamRows = <<>>
           THEN /\ Envelope.success = FALSE
                /\ Envelope.message = <<"Problem not found: ">> \o params.problem_number
                /\ "problem" \notin DOMAIN Envelope
           ELSE /\ Envelope.success = TRUE
                /\ "problem" \in DOMAIN Envelope
                /\ Envelope.problem.number = Get(UpstreamRows[1], "number")
                /\ Envelope.problem.sys_id = Get(UpstreamRows[1], "sys_id")
                /\ Envelope.problem.description = Get(UpstreamRows[1], "description")

C1_Witness ==
    /\ Done
    /\ op = "get_problem_by_number"
    /\ params.problem_number = <<"PRB0099999">>
    /\ response = [kind |-> "ok", body |-> PyDict([result |-> <<>>])]
    /\ ret = Return([success |-> FALSE, message |-> <<"Problem not found: ", "PRB0099999">>])

(* C2: every failure after the outbound work starts (transport error,       *)
(* non-2xx, malformed or non-object JSON body, failure obtaining the auth   *)
(* headers) ends in a returned {success: false, message: "Failed to         *)
(* <action>: <cause>"}; none leaves the operation as a raised exception.    *)
C2_FailuresBecomeEnvelopes ==
    (Done /\ (TransportFailed \/ BodyNotObject \/ AuthFailed)) =>
        /\ Returned
        /\ Envelope.success = FALSE
        /\ Len(Envelope.message) >= 1
        /\ Envelope.message[1] = FailurePrefix

(* C3: list_problems and search_problems reject limit <= 0 and offset < 0   *)
(* with a ValidationError, and a rejected invocation issues no request.     *)
C3_BadPaginationRejected ==
    (pc # "idle" /\ op \in {"list_problems", "search_problems"}
        /\ (params.limit <= 0 \/ params.offset < 0)) =>
        /\ requests = <<>>
        /\ Done
        /\ ret = Raise("ValidationError")

(* C4: search_problems with an empty keyword list, or one whose keywords    *)
(* are all empty or whitespace only, issues no request and returns          *)
(* success=true with an empty `problems` list and a message; a blank        *)
(* keyword never contributes a LIKE clause to a query that is sent.         *)
C4_BlankKeywordsShortCircuit ==
    (pc # "idle" /\ op = "search_problems") =>
        /\ NonBlank(params.keywords) = <<>> =>
              /\ requests = <<>>
              /\ Done
              /\ Returned
              /\ Envelope.success = TRUE
              /\ Envelope.problems = <<>>
              /\ Envelope.message # <<>>
        /\ \A r \in 1..Len(requests) :
              LET clauses == SplitOn(requests[r].sysparm_query.v, "^OR")
              IN  \A c \in 1..Len(clauses) : ~IsBlank(Tail(clauses[c]))

(* C5: with K non-blank keywords the sysparm_query sent by search_problems  *)
(* is exactly 2*K LIKE clauses, short_descriptionLIKE<kw> then              *)
(* descriptionLIKE<kw> per keyword in input order, joined only by ^OR, with *)
(* no AND separator and no equality filter.                                 *)
C5_TwoClausesPerKeyword ==
    (op = "search_problems" /\ requests # <<>>) =>
        LET kws == NonBlank(params.keywords)
            query == requests[1].sysparm_query.v
            clauses == SplitOn(query, "^OR")
        IN  /\ Len(clauses) = 2 * Len(kws)
            /\ \A i \in 1..Len(kws) :
                  /\ 2 * i <= Len(clauses)
                  /\ clauses[2 * i - 1] = <<"short_descriptionLIKE">> \o kws[i]
                  /\ clauses[2 * i] = <<"descriptionLIKE">> \o kws[i]
            /\ \A j \in 1..Len(query) : query[j] \notin {"^", "="}

(* C6: every normalized record of the three operations has all keys of its  *)
(* declared field set and only scalar values: a nested display-value object *)
(* in any field is replaced by its display_value member.                    *)
C6_RecordsCompleteAndScalar ==
    \A rec \in PayloadRecords :
        /\ DOMAIN rec = (IF op = "search_problems" THEN SearchFieldSet ELSE ListFieldSet)
        /\ \A k \in DOMAIN rec : IsScalar(rec[k])

(* C7: an invocation issues at most one GET to the table API; after a       *)
(* failed GET it issues no second request and returns the failure envelope. *)
C7_AtMostOneGet ==
    /\ Len(requests) <= 1
    /\ (pc = "waiting") => Len(requests) = 1
    /\ (Done /\ TransportFailed) =>
          /\ Len(requests) = 1
          /\ Returned
          /\ Envelope.success = FALSE

C7_Witness ==
    /\ Done
    /\ op = "list_problems"
    /\ response.kind = "Timeout"
    /\ Len(requests) = 1
    /\ Returned
    /\ Envelope.success = FALSE

(* C8: in every returned envelope the message is non-empty; with            *)
(* success=false the payload is empty or absent and the message names the   *)
(* cause (the record that was not found, or the exception caught).          *)
C8_EnvelopeInvariant ==
    (Done /\ Returned) =>
        /\ Envelope.message # <<>>
        /\ \A i \in 1..Len(Envelope.message) : Envelope.message[i] # ""
        /\ Envelope.success = FALSE =>
              /\ "problem" \notin DOMAIN Envelope
              /\ "problems" \in DOMAIN Envelope => Envelope.problems = <<>>
              /\ IF TransportFailed
                 THEN Envelope.message = <<FailurePrefix, response.kind>>
                 ELSE /\ op = "get_problem_by_number"
                      /\ Envelope.message = <<"Problem not found: ">> \o params.problem_number

C8_Witness ==
    /\ Done
    /\ op = "search_problems"
    /\ response.kind = "HTTPError"
    /\ ret = Return([success |-> FALSE,
                     message |-> <<"Failed to search problems: ", "HTTPError">>,
                     problems |-> <<>>])

C10_RowsInOrder ==
    (Done /\ op \in {"list_problems", "search_problems"} /\ requests # <<>>
        /\ Returned /\ Envelope.success = TRUE) =>
        /\ UpstreamOk
        /\ Len(Envelope.problems) = Len(UpstreamRows)
        /\ \A i \in 1..Len(UpstreamRows) :
              /\ i <= Len(Envelope.problems)
              /\ \A k \in DOMAIN Envelope.problems[i] :
                    Envelope.problems[i][k] =
                        LET raw == Get(UpstreamRows[i],
                                       IF k = "created_on" THEN "sys_created_on"
                                       ELSE IF k = "updated_on" THEN "sys_updated_on" ELSE k)
                        IN  IF k = "assigned_to" /\ IsDict(raw)
                            THEN Get(raw, "display_value") ELSE raw
        /\ Envelope.message[1] = "Found "
        /\ StrToInt(SelectSeq(Envelope.message, IsDigit)) = Len(UpstreamRows)
        /\ Envelope.message[Len(Envelope.message)] =
              (IF op = "list_problems" THEN " problems" ELSE " problems matching keywords")

C10_Witness ==
    /\ Done
    /\ op = "search_problems"
    /\ UpstreamOk
    /\ Len(UpstreamRows) = 2
    /\ UpstreamRows[1] # UpstreamRows[2]
    /\ Returned
    /\ Envelope.success = TRUE
    /\ Len(Envelope.problems) = 2
    /\ Envelope.problems[1].number = Get(UpstreamRows[1], "number")
    /\ Envelope.problems[2].number = Get(UpstreamRows[2], "number")

\* a filter parameter that was given a non-empty value
IsSet(x) == x.t = "str" /\ Len(x.v) > 0

\* the clauses the claim lists, in its order, for the parameters that are set
ExpectedListClauses ==
    LET clause(x, c) == IF IsSet(x) THEN <<c>> ELSE <<>>
        text(x) == IF IsSet(x) THEN x.v ELSE <<>>
    IN  clause(params.state, <<"state=">> \o text(params.state))
        \o clause(params.assigned_to, <<"assigned_to=">> \o text(params.assigned_to))
        \o clause(params.category, <<"category=">> \o text(params.category))
        \o clause(params.query,
                  <<"short_descriptionLIKE">> \o text(params.query) \o <<"^OR">>
                      \o <<"descriptionLIKE">> \o text(params.query))

(* C11: the sysparm_query sent by list_problems is the `^`-joined sequence  *)
(* of the clauses of the filters that are set (given a non-empty value), in *)
(* the order state=, assigned_to=, category=, then                          *)
(* short_descriptionLIKE<q>^ORdescriptionLIKE<q>; with nothing set the      *)
(* request is still issued, has no sysparm_query, and has limit and offset. *)
C11_ListQueryClauses ==
    (op = "list_problems") =>
        /\ pc = "waiting" => Len(requests) = 1
        /\ \A r \in 1..Len(requests) :
              /\ {"sysparm_limit", "sysparm_offset"} \subseteq DOMAIN requests[r]
              /\ IF ExpectedListClauses = <<>>
                 THEN "sysparm_query" \notin DOMAIN requests[r]
                 ELSE /\ "sysparm_query" \in DOMAIN requests[r]
                      /\ SplitOn(requests[r].sysparm_query.v, "^") = ExpectedListClauses

C11_Witness ==
    /\ op = "list_problems"
    /\ pc = "waiting"
    /\ params.assigned_to = PyStr(<<"u1">>)
    /\ requests[1].sysparm_query.v =
          <<"state=", "1", "^", "assigned_to=", "u1", "^", "category=", "Software", "^",
            "short_descriptionLIKE", "email", "^OR", "descriptionLIKE", "email">>

C11_WitnessUnfiltered ==
    /\ op = "list_problems"
    /\ pc = "waiting"
    /\ ExpectedListClauses = <<>>
    /\ params.assigned_to = PyStr(<<>>)
    /\ DOMAIN requests[1] = {"sysparm_limit", "sysparm_offset", "sysparm_display_value",
                             "sysparm_exclude_reference_link"}

====
